---- MODULE Spec2Model ----
(***************************************************************************)
(* Superteam Earn watcher: the polling cycle (app/main.py), the listing    *)
(* store (app/db.py), the region filter (app/filters.py), the source      *)
(* normalisation (app/superteam.py), the sender (app/notifier.py) and the  *)
(* /force command of the operator interface (app/commands.py).             *)
(*                                                                         *)
(* Three threads can execute run_cycle: the watcher loop of main() and the *)
(* _run threads that cmd_force starts.  A run_cycle is split into one      *)
(* action per access to shared state (the store, the sender), so that the *)
(* interleavings of two cycles are those of the program.                   *)
(***************************************************************************)
EXTENDS Integers, Sequences, FiniteSets, TLC

\* ------------------------------------------------------------------ bounds

\* Longest batch fetch_listings returns.
MaxBatch == 2
\* Largest configured per-run cap (MAX_NOTIFS_PER_RUN is read from the
\* environment): a cap of MaxBatch or more never stops a cycle.
MaxCap == MaxBatch - 1
\* Number of clock ticks the model follows.
MaxTicks == 1
\* Successful sends per id the model follows (a send after a failed
\* mark_notified repeats without limit in the program).
MaxSent == 2

\* ------------------------------------------------------- program constants

FORCE_COOLDOWN == 60

\* time.time() when the process starts: any epoch time not below FORCE_COOLDOWN,
\* so that the initial _force_last_ts = 0.0 never causes a cooldown.
StartTime == FORCE_COOLDOWN

\* Seconds per clock tick: one cooldown, so that a /force can arrive inside the
\* cooldown (no tick since the last forced run) and after it.
TickSeconds == FORCE_COOLDOWN

None == "None"

\* A timestamp column or field that holds no time (NULL, None).
NoTime == 0 - 1

\* ------------------------------------------------------------------ strings
\* A region is None or a string.  A string is a sequence of characters; None is
\* the one-element sequence NoneStr, which no string equals.

NoneStr == <<None>>

Str_Global == <<"G", "l", "o", "b", "a", "l">>
Str_US == <<"U", "S">>
Str_remote_padded == <<" ", "r", "e", "m", "o", "t", "e", " ">>
Str_empty == <<>>
Str_blank == <<" ", " ">>
Str_WORLDWIDE == <<"W", "O", "R", "L", "D", "W", "I", "D", "E">>
Str_online == <<"o", "n", "l", "i", "n", "e">>
Str_Nigeria == <<"N", "i", "g", "e", "r", "i", "a">>
Str_brazil == <<"b", "r", "a", "z", "i", "l">>

IsSpace(c) == c = " "

\* str.lower() on the characters the model uses.
LowerChar(c) ==
    CASE c = "G" -> "g"
      [] c = "U" -> "u"
      [] c = "S" -> "s"
      [] c = "R" -> "r"
      [] c = "E" -> "e"
      [] c = "M" -> "m"
      [] c = "O" -> "o"
      [] c = "T" -> "t"
      [] c = "W" -> "w"
      [] c = "L" -> "l"
      [] c = "D" -> "d"
      [] c = "I" -> "i"
      [] c = "N" -> "n"
      [] OTHER -> c

Lower(s) == [k \in 1..Len(s) |-> LowerChar(s[k])]

RECURSIVE LStrip(_)
LStrip(s) == IF s # <<>> /\ IsSpace(Head(s)) THEN LStrip(Tail(s)) ELSE s

RECURSIVE RStrip(_)
RStrip(s) ==
    IF s # <<>> /\ IsSpace(s[Len(s)]) THEN RStrip(SubSeq(s, 1, Len(s) - 1)) ELSE s

\* str.strip()
Strip(s) == RStrip(LStrip(s))

\* ------------------------------------------------------------------ filters

GLOBAL_KEYWORDS ==
    { <<"g", "l", "o", "b", "a", "l">>,
      <<"w", "o", "r", "l", "d", "w", "i", "d", "e">>,
      <<"r", "e", "m", "o", "t", "e">>,
      <<"o", "n", "l", "i", "n", "e">> }

\* Mutant: the region is compared as it is, neither trimmed nor lower-cased.
is_allowed_exact(region) ==
    IF region = NoneStr \/ region = <<>>
    THEN TRUE
    ELSE region \in GLOBAL_KEYWORDS

\* filters.is_allowed: `not region` is true for None and for "".
is_allowed(region) ==
    IF region = NoneStr \/ region = <<>>
    THEN TRUE
    ELSE Lower(Strip(region)) \in GLOBAL_KEYWORDS

\* ---------------------------------------------------------------- superteam
\* A raw item of /api/listings carries id and slug; `region` is what the detail
\* endpoint answers for its slug when the detail request succeeds.

Item_a1 == [id |-> "a1", slug |-> "s1", region |-> Str_Global]
Item_a2 == [id |-> "a2", slug |-> "s2", region |-> Str_US]
Item_s3 == [id |-> None, slug |-> "s3", region |-> Str_remote_padded]
Item_noslug == [id |-> "a4", slug |-> None, region |-> NoneStr]

Items == {Item_a1, Item_a2, Item_s3, Item_noslug}

NoItem == [id |-> None, region |-> NoneStr, is_global |-> FALSE]

\* fetch_detail: the detail record, or None when the request failed.
NoDetail == [ok |-> FALSE, region |-> NoneStr]
DetailOf(item) == [ok |-> TRUE, region |-> item.region]

\* normalise(item, detail): `detail.get("region") or None` turns "" into None.
normalise(item, detail) ==
    LET region == IF ~detail.ok THEN NoneStr
                  ELSE IF detail.region = <<>> THEN NoneStr ELSE detail.region
    IN  [ id        |-> IF item.id # None THEN item.id ELSE item.slug,
          region    |-> region,
          is_global |-> (region = NoneStr
                         \/ Lower(Strip(region)) \in GLOBAL_KEYWORDS) ]

\* The ids a normalised item can carry.
Ids == { normalise(it, NoDetail).id : it \in {x \in Items : x.slug # None} }

RECURSIVE SeqsUpTo(_, _)
SeqsUpTo(S, n) ==
    IF n = 0 THEN {<<>>}
    ELSE LET shorter == SeqsUpTo(S, n - 1)
         IN  shorter \cup { Append(s, x) : s \in shorter, x \in S }

\* ----------------------------------------------------------------------- db

NoRow == [exists |-> FALSE]

NewRow(item, ts) ==
    [ exists        |-> TRUE,
      region        |-> item.region,
      is_global     |-> item.is_global,
      first_seen_at |-> ts,
      last_seen_at  |-> ts,
      notified_at   |-> NoTime ]

\* Mutant: the conflict branch replaces the row (INSERT OR REPLACE), which
\* clears notified_at.
upsert_listing_replaces(table, item, ts) ==
    [table EXCEPT ![item.id] = NewRow(item, ts)]

\* db.upsert_listing: the table after the statement.
upsert_listing(table, item, ts) ==
    IF table[item.id].exists
    THEN [table EXCEPT ![item.id] =
             [@ EXCEPT !.last_seen_at = ts,
                       !.region = item.region,
                       !.is_global = item.is_global]]
    ELSE [table EXCEPT ![item.id] = NewRow(item, ts)]

\* Mutant: the statement always reports an insert.
upsert_is_new_always(table, item) == TRUE

\* RETURNING (xmax = 0): true when the statement inserted the row.
upsert_is_new(table, item) == ~table[item.id].exists

\* Mutant: every row seen before needs a notification.
needs_notification_any_row(table, listing_id) == table[listing_id].exists

\* Mutant: a row seen before is never eligible again.
needs_notification_never(table, listing_id) == FALSE

\* Mutant: only rows flagged is_global are eligible again.
needs_notification_global_only(table, listing_id) ==
    /\ table[listing_id].exists
    /\ table[listing_id].notified_at = NoTime
    /\ table[listing_id].is_global

\* db.needs_notification
needs_notification(table, listing_id) ==
    IF ~table[listing_id].exists
    THEN FALSE
    ELSE table[listing_id].notified_at = NoTime

\* db.mark_notified: UPDATE ... WHERE id = %s touches no row when none matches.
mark_notified(table, listing_id, ts) ==
    IF table[listing_id].exists
    THEN [table EXCEPT ![listing_id].notified_at = ts]
    ELSE table

\* -------------------------------------------------------------------- state

\* The watcher loop of main() and the _run threads cmd_force can start.
MainThread == "main"
ForceThreads == {"f1", "f2"}
Threads == {MainThread} \cup ForceThreads

VARIABLES
    now,                 \* time.time() and the store's now()
    feed,                \* what /api/listings answers
    MAX_NOTIFS_PER_RUN,  \* settings.MAX_NOTIFS_PER_RUN
    pc,                  \* where each thread is
    listings,            \* run_cycle's local `listings`
    idx,                 \* position of the for loop in `listings`
    norm,                \* run_cycle's local `norm`
    new_count, notified_count, skipped_count,
    rows,                \* table listings_seen, by id
    state,               \* main.state: last_check_at, last_success_at, last_error
    force_running,       \* commands._force_running
    force_last_ts,       \* commands._force_last_ts
    reply,               \* the last message the /force machinery sent to the chat
    sent,                \* history: successful send_telegram calls per id
    send_failed          \* history: some send_telegram call returned False

vars == << now, feed, MAX_NOTIFS_PER_RUN, pc, listings, idx, norm,
           new_count, notified_count, skipped_count, rows, state,
           force_running, force_last_ts, reply, sent, send_failed >>

locals == << listings, idx, norm, new_count, notified_count, skipped_count >>
force == << force_running, force_last_ts, reply >>
env == << feed, MAX_NOTIFS_PER_RUN >>

\* Positions inside run_cycle.
CyclePcs == {"start", "loop", "upsert", "needs", "filter", "send", "mark"}
\* Positions at which `norm` holds the item being processed.
ItemPcs == {"upsert", "needs", "filter", "send", "mark"}

InCycle(t) == pc[t] \in CyclePcs

NoReply == [kind |-> "none", wait |-> 0]

\* The state when main() enters its loop, the settings apart.
InitState ==
    /\ now = StartTime
    /\ pc = [t \in Threads |-> "idle"]
    /\ listings = [t \in Threads |-> <<>>]
    /\ idx = [t \in Threads |-> 0]
    /\ norm = [t \in Threads |-> NoItem]
    /\ new_count = [t \in Threads |-> 0]
    /\ notified_count = [t \in Threads |-> 0]
    /\ skipped_count = [t \in Threads |-> 0]
    /\ rows = [i \in Ids |-> NoRow]
    /\ state = [last_check_at |-> NoTime, last_success_at |-> NoTime,
                last_error |-> None]
    /\ force_running = FALSE
    /\ force_last_ts = 0
    /\ reply = NoReply
    /\ sent = [i \in Ids |-> 0]
    /\ send_failed = FALSE

InitCommon ==
    /\ MAX_NOTIFS_PER_RUN \in 0..MaxCap
    /\ InitState

\* Batches of at most one item: what the interleavings of two cycles need.
ShortFeeds == {<<>>} \cup { <<it>> : it \in Items }

Init ==
    /\ feed \in ShortFeeds
    /\ InitCommon

InitSeq ==
    /\ feed \in SeqsUpTo(Items, MaxBatch)
    /\ InitCommon

\* ------------------------------------------------------------------- clock

Tick ==
    /\ now < StartTime + MaxTicks * TickSeconds
    /\ now' = now + TickSeconds
    /\ UNCHANGED << env, pc, locals, rows, state, force, sent, send_failed >>

\* --------------------------------------------------------------- run_cycle

Item(t) == listings[t][idx[t]]

\* Mutant: the cap test is off by one (> for >=).
CapReached_off_by_one(t) == notified_count[t] > MAX_NOTIFS_PER_RUN

\* Line 49: the per-run cap, tested before each item.
CapReached(t) == notified_count[t] >= MAX_NOTIFS_PER_RUN

\* The for loop has an item left and the cap does not stop it.
HasNext(t) == idx[t] <= Len(listings[t]) /\ ~CapReached(t)

\* `continue`, and the end of an iteration: on to the next item.
NextItem(t) ==
    /\ idx' = [idx EXCEPT ![t] = @ + 1]
    /\ norm' = [norm EXCEPT ![t] = NoItem]
    /\ pc' = [pc EXCEPT ![t] = "loop"]

\* An exception leaves run_cycle.
Raise(t) == pc' = [pc EXCEPT ![t] = "raised"]

\* The locals of a run_cycle that has ended.
DropLocals(t) ==
    /\ listings' = [listings EXCEPT ![t] = <<>>]
    /\ idx' = [idx EXCEPT ![t] = 0]
    /\ norm' = [norm EXCEPT ![t] = NoItem]
    /\ new_count' = [new_count EXCEPT ![t] = 0]
    /\ notified_count' = [notified_count EXCEPT ![t] = 0]
    /\ skipped_count' = [skipped_count EXCEPT ![t] = 0]

\* superteam.fetch_listings: the batch, or [] when the request failed.
fetch_listings_results == {feed, <<>>}

\* Lines 35-46: record the attempt, fetch the batch; an empty batch ends the cycle.
FetchListings(t) ==
    /\ pc[t] = "start"
    /\ \E data \in fetch_listings_results :
          /\ listings' = [listings EXCEPT ![t] = data]
          /\ IF data = <<>>
             THEN /\ state' = [state EXCEPT !.last_check_at = now,
                                            !.last_success_at = now]
                  /\ pc' = [pc EXCEPT ![t] = "returned"]
                  /\ idx' = [idx EXCEPT ![t] = 0]
             ELSE /\ state' = [state EXCEPT !.last_check_at = now]
                  /\ pc' = [pc EXCEPT ![t] = "loop"]
                  /\ idx' = [idx EXCEPT ![t] = 1]
    /\ new_count' = [new_count EXCEPT ![t] = 0]
    /\ notified_count' = [notified_count EXCEPT ![t] = 0]
    /\ skipped_count' = [skipped_count EXCEPT ![t] = 0]
    /\ UNCHANGED << now, env, norm, rows, force, sent, send_failed >>

\* Lines 48-51 and 83-85: the loop is exhausted or the cap breaks it.
CycleComplete(t) ==
    /\ pc[t] = "loop"
    /\ ~HasNext(t)
    /\ state' = [state EXCEPT !.last_success_at = now, !.last_error = None]
    /\ pc' = [pc EXCEPT ![t] = "returned"]
    /\ UNCHANGED << now, env, locals, rows, force, sent, send_failed >>

\* Mutant: an item without a slug is counted as skipped.
SkipNoSlug_counts_skipped(t) ==
    /\ pc[t] = "loop"
    /\ HasNext(t)
    /\ Item(t).slug = None
    /\ skipped_count' = [skipped_count EXCEPT ![t] = @ + 1]
    /\ NextItem(t)
    /\ UNCHANGED << now, env, listings, new_count, notified_count,
                    rows, state, force, sent, send_failed >>

\* Lines 53-55: an item without a slug is passed over.
SkipNoSlug(t) ==
    /\ pc[t] = "loop"
    /\ HasNext(t)
    /\ Item(t).slug = None
    /\ NextItem(t)
    /\ UNCHANGED << now, env, listings, new_count, notified_count, skipped_count,
                    rows, state, force, sent, send_failed >>

\* Lines 58-59: fetch_detail (None when the request fails) and normalise.
FetchDetail(t) ==
    /\ pc[t] = "loop"
    /\ HasNext(t)
    /\ Item(t).slug # None
    /\ \E detail \in {NoDetail, DetailOf(Item(t))} :
          norm' = [norm EXCEPT ![t] = normalise(Item(t), detail)]
    /\ pc' = [pc EXCEPT ![t] = "upsert"]
    /\ UNCHANGED << now, env, listings, idx, new_count, notified_count,
                    skipped_count, rows, state, force, sent, send_failed >>

\* Lines 62-67: upsert; a new row is eligible without asking the store again
\* (`is_new or ...` short-circuits).
Upsert(t) ==
    /\ pc[t] = "upsert"
    /\ LET is_new == upsert_is_new(rows, norm[t])
       IN  /\ rows' = upsert_listing(rows, norm[t], now)
           /\ new_count' = [new_count EXCEPT ![t] = IF is_new THEN @ + 1 ELSE @]
           /\ pc' = [pc EXCEPT ![t] = IF is_new THEN "filter" ELSE "needs"]
    /\ UNCHANGED << now, env, listings, idx, norm, notified_count, skipped_count,
                    state, force, sent, send_failed >>

\* Line 62: psycopg2 raises; nothing in run_cycle catches it.
UpsertError(t) ==
    /\ pc[t] = "upsert"
    /\ Raise(t)
    /\ UNCHANGED << now, env, locals, rows, state, force, sent, send_failed >>

\* Lines 67-69: a row seen before is eligible while its notified_at is NULL.
NeedsNotification(t) ==
    /\ pc[t] = "needs"
    /\ IF needs_notification(rows, norm[t].id)
       THEN /\ pc' = [pc EXCEPT ![t] = "filter"]
            /\ UNCHANGED << idx, norm >>
       ELSE NextItem(t)
    /\ UNCHANGED << now, env, listings, new_count, notified_count, skipped_count,
                    rows, state, force, sent, send_failed >>

NeedsNotificationError(t) ==
    /\ pc[t] = "needs"
    /\ Raise(t)
    /\ UNCHANGED << now, env, locals, rows, state, force, sent, send_failed >>

\* Mutant: the filter's verdict is ignored; every eligible item goes to the sender.
RegionFilter_ignored(t) ==
    /\ pc[t] = "filter"
    /\ pc' = [pc EXCEPT ![t] = "send"]
    /\ UNCHANGED << now, env, locals, rows, state, force, sent, send_failed >>

\* Lines 72-75: the region filter.
RegionFilter(t) ==
    /\ pc[t] = "filter"
    /\ IF is_allowed(norm[t].region)
       THEN /\ pc' = [pc EXCEPT ![t] = "send"]
            /\ UNCHANGED << idx, norm, skipped_count >>
       ELSE /\ skipped_count' = [skipped_count EXCEPT ![t] = @ + 1]
            /\ NextItem(t)
    /\ UNCHANGED << now, env, listings, new_count, notified_count,
                    rows, state, force, sent, send_failed >>

\* Lines 78-79: send_telegram returned True.
SendOk(t) ==
    /\ pc[t] = "send"
    /\ sent[norm[t].id] < MaxSent
    /\ sent' = [sent EXCEPT ![norm[t].id] = @ + 1]
    /\ pc' = [pc EXCEPT ![t] = "mark"]
    /\ UNCHANGED << now, env, locals, rows, state, force, send_failed >>

\* Mutant: mark_notified and the counter are outside `if ok`.
SendFail_marks_anyway(t) ==
    /\ pc[t] = "send"
    /\ send_failed' = TRUE
    /\ rows' = mark_notified(rows, norm[t].id, now)
    /\ notified_count' = [notified_count EXCEPT ![t] = @ + 1]
    /\ idx' = [idx EXCEPT ![t] = @ + 1]
    /\ norm' = [norm EXCEPT ![t] = NoItem]
    /\ pc' = [pc EXCEPT ![t] = "loop"]
    /\ UNCHANGED << now, env, listings, new_count, skipped_count,
                    state, force, sent >>

\* Lines 78-79: send_telegram returned False (it never raises).
SendFail(t) ==
    /\ pc[t] = "send"
    /\ send_failed' = TRUE
    /\ NextItem(t)
    /\ UNCHANGED << now, env, listings, new_count, notified_count, skipped_count,
                    rows, state, force, sent >>

\* Mutant: a notification is not counted.
MarkNotified_no_count(t) ==
    /\ pc[t] = "mark"
    /\ rows' = mark_notified(rows, norm[t].id, now)
    /\ NextItem(t)
    /\ UNCHANGED << now, env, listings, new_count, notified_count, skipped_count,
                    state, force, sent, send_failed >>

\* Lines 80-81.
MarkNotified(t) ==
    /\ pc[t] = "mark"
    /\ rows' = mark_notified(rows, norm[t].id, now)
    /\ notified_count' = [notified_count EXCEPT ![t] = @ + 1]
    /\ NextItem(t)
    /\ UNCHANGED << now, env, listings, new_count, skipped_count,
                    state, force, sent, send_failed >>

MarkNotifiedError(t) ==
    /\ pc[t] = "mark"
    /\ Raise(t)
    /\ UNCHANGED << now, env, locals, rows, state, force, sent, send_failed >>

\* -------------------------------------------------------------------- main

\* Line 103-105: the loop calls run_cycle (after the sleep of the previous turn).
MainWake ==
    /\ pc[MainThread] = "idle"
    /\ pc' = [pc EXCEPT ![MainThread] = "start"]
    /\ UNCHANGED << now, env, locals, rows, state, force, sent, send_failed >>

\* Lines 105-109 and 113-114: run_cycle returned; log and sleep.
MainCycleDone ==
    /\ pc[MainThread] = "returned"
    /\ pc' = [pc EXCEPT ![MainThread] = "idle"]
    /\ DropLocals(MainThread)
    /\ UNCHANGED << now, env, rows, state, force, sent, send_failed >>

\* Mutant: the exception is not caught and ends the watcher loop.
MainCycleError_exits ==
    /\ pc[MainThread] = "raised"
    /\ pc' = [pc EXCEPT ![MainThread] = "exited"]
    /\ DropLocals(MainThread)
    /\ UNCHANGED << now, env, rows, state, force, sent, send_failed >>

\* Lines 110-114: run_cycle raised; record the error and sleep.
MainCycleError ==
    /\ pc[MainThread] = "raised"
    /\ state' = [state EXCEPT !.last_error = "error"]
    /\ pc' = [pc EXCEPT ![MainThread] = "idle"]
    /\ DropLocals(MainThread)
    /\ UNCHANGED << now, env, rows, force, sent, send_failed >>

\* ---------------------------------------------------------------- commands

\* Mutant: the guard is not consulted.
ForceBusy_never == FALSE

\* Line 149: the guard on a forced run in progress.
ForceBusy == force_running

\* Mutant: the cooldown is not enforced.
InCooldown_never == FALSE

\* Lines 152-153: the cooldown since the last forced run ended.
InCooldown == now - force_last_ts < FORCE_COOLDOWN

\* The thread cmd_force starts (line 182): a new one each time.
FreeThread == IF pc["f1"] = "idle" THEN "f1" ELSE "f2"

\* cmd_force, as the commands thread runs it for one /force message.
CmdForce ==
    /\ IF ForceBusy
       THEN /\ reply' = [kind |-> "already", wait |-> 0]
            /\ UNCHANGED << pc, force_running >>
       ELSE IF InCooldown
       THEN /\ reply' = [kind |-> "cooldown",
                         wait |-> FORCE_COOLDOWN - (now - force_last_ts)]
            /\ UNCHANGED << pc, force_running >>
       ELSE /\ \E t \in ForceThreads : pc[t] = "idle"
            /\ force_running' = TRUE
            /\ reply' = [kind |-> "starting", wait |-> 0]
            /\ pc' = [pc EXCEPT ![FreeThread] = "start"]
    /\ UNCHANGED << now, env, locals, rows, state, force_last_ts, sent, send_failed >>

\* _run, lines 165-180: run_cycle returned; release the guard and report.
ForceDone(t) ==
    /\ t \in ForceThreads
    /\ pc[t] = "returned"
    /\ force_running' = FALSE
    /\ force_last_ts' = now
    /\ reply' = [kind |-> "done", wait |-> 0]
    /\ pc' = [pc EXCEPT ![t] = "idle"]
    /\ DropLocals(t)
    /\ UNCHANGED << now, env, rows, state, sent, send_failed >>

\* Mutant: no `finally`; an exception from run_cycle leaves the guard set.
ForceError_keeps_guard(t) ==
    /\ t \in ForceThreads
    /\ pc[t] = "raised"
    /\ reply' = [kind |-> "error", wait |-> 0]
    /\ pc' = [pc EXCEPT ![t] = "idle"]
    /\ DropLocals(t)
    /\ UNCHANGED << now, env, rows, state, force_running, force_last_ts,
                    sent, send_failed >>

\* _run, lines 173-180: run_cycle raised; release the guard and report.
ForceError(t) ==
    /\ t \in ForceThreads
    /\ pc[t] = "raised"
    /\ force_running' = FALSE
    /\ force_last_ts' = now
    /\ reply' = [kind |-> "error", wait |-> 0]
    /\ pc' = [pc EXCEPT ![t] = "idle"]
    /\ DropLocals(t)
    /\ UNCHANGED << now, env, rows, state, sent, send_failed >>

\* ----------------------------------------------------------- specification

CycleStep(t) ==
    \/ FetchListings(t)
    \/ CycleComplete(t)
    \/ SkipNoSlug(t)
    \/ FetchDetail(t)
    \/ Upsert(t)
    \/ NeedsNotification(t)
    \/ RegionFilter(t)
    \/ SendOk(t)
    \/ SendFail(t)
    \/ MarkNotified(t)

StoreError(t) ==
    \/ UpsertError(t)
    \/ NeedsNotificationError(t)
    \/ MarkNotifiedError(t)

Next ==
    \/ Tick
    \/ MainWake
    \/ MainCycleDone
    \/ MainCycleError
    \/ CmdForce
    \/ \E t \in Threads : CycleStep(t)
    \/ \E t \in Threads : StoreError(t)
    \/ \E t \in ForceThreads : ForceDone(t)
    \/ \E t \in ForceThreads : ForceError(t)

\* The whole program: the watcher loop, the commands thread and forced runs.
Spec == Init /\ [][Next]_vars

\* Cycles that do not overlap: the watcher loop wakes only while no forced run
\* is in progress, and a /force arrives only while the watcher loop sleeps.
SeqMainWake ==
    /\ \A t \in ForceThreads : pc[t] = "idle"
    /\ MainWake

SeqCmdForce ==
    /\ pc[MainThread] = "idle"
    /\ CmdForce

NextErr ==
    \/ SeqMainWake
    \/ MainCycleDone
    \/ MainCycleError
    \/ SeqCmdForce
    \/ \E t \in Threads : CycleStep(t)
    \/ \E t \in Threads : StoreError(t)
    \/ \E t \in ForceThreads : ForceDone(t)
    \/ \E t \in ForceThreads : ForceError(t)

\* Non-overlapping cycles; store operations may raise.
SpecErr == InitSeq /\ [][NextErr]_vars

NextSeq ==
    \/ Tick
    \/ SeqMainWake
    \/ MainCycleDone
    \/ SeqCmdForce
    \/ \E t \in Threads : CycleStep(t)
    \/ \E t \in ForceThreads : ForceDone(t)

\* Non-overlapping cycles in which no store operation fails.
SpecSeq == InitSeq /\ [][NextSeq]_vars

\* The whole program with a store that never fails: what is left is the
\* interleaving of the watcher loop's cycle with a forced one.
NextRace ==
    \/ Tick
    \/ MainWake
    \/ MainCycleDone
    \/ CmdForce
    \/ \E t \in Threads : CycleStep(t)
    \/ \E t \in ForceThreads : ForceDone(t)

SpecRace == Init /\ [][NextRace]_vars

\* ------------------------------------------------------- the store by itself
\* The store's operations called in any order with any arguments.

CallUpsert ==
    /\ \E it \in {x \in Items : x.slug # None} :
          \E detail \in {NoDetail, DetailOf(it)} :
             rows' = upsert_listing(rows, normalise(it, detail), now)
    /\ UNCHANGED << now, env, pc, locals, state, force, sent, send_failed >>

CallMarkNotified ==
    /\ \E i \in Ids : rows' = mark_notified(rows, i, now)
    /\ UNCHANGED << now, env, pc, locals, state, force, sent, send_failed >>

NextStore ==
    \/ Tick
    \/ CallUpsert
    \/ CallMarkNotified

SpecStore == Init /\ [][NextStore]_vars

\* ------------------------------------------------------ the /force machinery
\* The commands thread and the forced runs by themselves, on a clock that
\* advances by half a cooldown: a /force can arrive at the end of a forced run,
\* half a cooldown after it, and a full cooldown after it.

TickHalf ==
    /\ now < StartTime + MaxTicks * TickSeconds
    /\ now' = now + TickSeconds \div 2
    /\ UNCHANGED << env, pc, locals, rows, state, force, sent, send_failed >>

NextForce ==
    \/ TickHalf
    \/ CmdForce
    \/ \E t \in ForceThreads : CycleStep(t)
    \/ \E t \in ForceThreads : StoreError(t)
    \/ \E t \in ForceThreads : ForceDone(t)
    \/ \E t \in ForceThreads : ForceError(t)

SpecForce == Init /\ [][NextForce]_vars

\* ------------------------------------------------------ the watcher loop alone
\* main()'s loop with no forced runs.  Between two cycles the source may come
\* to answer a different batch.

FeedChange ==
    /\ pc[MainThread] = "idle"
    /\ feed' \in ShortFeeds \ {feed}
    /\ UNCHANGED << now, MAX_NOTIFS_PER_RUN, pc, locals, rows, state, force,
                    sent, send_failed >>

NextFeed ==
    \/ MainWake
    \/ MainCycleDone
    \/ MainCycleError
    \/ CycleStep(MainThread)
    \/ StoreError(MainThread)
    \/ FeedChange

SpecFeed == Init /\ [][NextFeed]_vars

\* A step of the watcher thread.
MainStep ==
    \/ MainWake
    \/ MainCycleDone
    \/ MainCycleError
    \/ CycleStep(MainThread)
    \/ StoreError(MainThread)

NextLoop ==
    \/ MainWake
    \/ MainCycleDone
    \/ MainCycleError
    \/ CycleStep(MainThread)
    \/ StoreError(MainThread)

\* The watcher loop with a store that may fail; the thread is scheduled again
\* and again (time.sleep returns).
SpecLoop == InitSeq /\ [][NextLoop]_vars /\ WF_vars(MainStep)

\* ------------------------------------------------- cycle after cycle, no failure
\* The watcher loop over a source that holds the same batch throughout, with a
\* store that never fails and any cap up to the longest batch.  The thread is
\* scheduled again and again, the listing request succeeds again and again,
\* and an item that is sent again and again is sent successfully at some time.

InitCycles ==
    /\ feed \in SeqsUpTo(Items, MaxBatch)
    /\ MAX_NOTIFS_PER_RUN \in 0..MaxBatch
    /\ InitState

NextCycles ==
    \/ MainWake
    \/ MainCycleDone
    \/ CycleStep(MainThread)

SpecCycles ==
    /\ InitCycles
    /\ [][NextCycles]_vars
    /\ WF_vars(NextCycles)
    /\ SF_vars(FetchListings(MainThread) /\ listings'[MainThread] = feed)
    /\ \A i \in Ids : SF_vars(SendOk(MainThread) /\ norm[MainThread].id = i)

\* ------------------------------------------------------------ regions at large
\* The watcher loop over one item whose detail answers any of the regions
\* below (NoneStr: the detail carries no region), or the item without a slug.

Regions ==
    { NoneStr, Str_empty, Str_blank, Str_Global, Str_WORLDWIDE,
      Str_remote_padded, Str_online, Str_US, Str_Nigeria, Str_brazil }

RegionItem(r) == [id |-> "a1", slug |-> "s1", region |-> r]

InitRegions ==
    /\ feed \in { << RegionItem(r) >> : r \in Regions } \cup { << Item_noslug >> }
    /\ InitCommon

NextRegions ==
    \/ MainWake
    \/ MainCycleDone
    \/ CycleStep(MainThread)

SpecRegions == InitRegions /\ [][NextRegions]_vars

\* A step of a _run thread.
ForceStep ==
    \E t \in ForceThreads :
       \/ CycleStep(t)
       \/ StoreError(t)
       \/ ForceDone(t)
       \/ ForceError(t)

\* The /force machinery with its _run threads scheduled again and again.
SpecForceLive == Init /\ [][NextForce]_vars /\ WF_vars(ForceStep)

\* ------------------------------------------------------------------ claims

\* The row of id i holds a notification time.
Notified(i) == rows[i].exists /\ rows[i].notified_at # NoTime

Counters(t) == << new_count[t], notified_count[t], skipped_count[t] >>

\* C1: the watcher loop's cycle and a forced cycle never execute concurrently:
\* at most one invocation of run_cycle is in progress.
C1_OneCycleAtATime == Cardinality({t \in Threads : InCycle(t)}) <= 1

\* C2: over every interleaving of a periodic cycle and a forced cycle, at most
\* one successful send_telegram is performed for each listing id.
C2_AtMostOneSend == \A i \in Ids : sent[i] <= 1

\* C3: in non-overlapping cycles in which no store operation fails, each id
\* receives at most one successful send; a cycle that meets an id whose
\* notified_at is set finds it ineligible: it goes on to the next item without
\* the filter, the sender or mark_notified, and changes no counter and no send
\* count.
C3_NotifiedIsIneligible ==
    [][ /\ \A i \in Ids : sent'[i] <= 1
        /\ \A t \in Threads :
              (pc[t] \in ItemPcs /\ Notified(norm[t].id)) =>
                 /\ pc[t] \in {"upsert", "needs"}
                 /\ pc'[t] \in {"upsert", "needs", "loop"}
                 /\ Counters(t)' = Counters(t)
                 /\ sent' = sent ]_vars

\* A later cycle is at the eligibility test of an id notified before.
C3_Witness ==
    \E t \in Threads :
       /\ pc[t] = "needs"
       /\ Notified(norm[t].id)
       /\ sent[norm[t].id] = 1

\* C4: in every cycle the successful sends and the notified counter never
\* exceed MAX_NOTIFS_PER_RUN, and once the counter has reached the cap no
\* further item is processed (a thread inside an item is below the cap, so the
\* send it may still make keeps the total within the cap).
C4_CapRespected ==
    \A t \in Threads :
       /\ notified_count[t] <= MAX_NOTIFS_PER_RUN
       /\ pc[t] \in ItemPcs => notified_count[t] < MAX_NOTIFS_PER_RUN
       /\ notified_count[t] + (IF pc[t] = "mark" THEN 1 ELSE 0)
             <= MAX_NOTIFS_PER_RUN

\* A cycle ended by the cap with an item of the batch left unprocessed.
C4_Witness ==
    \E t \in Threads :
       /\ pc[t] = "returned"
       /\ MAX_NOTIFS_PER_RUN >= 1
       /\ notified_count[t] = MAX_NOTIFS_PER_RUN
       /\ idx[t] <= Len(listings[t])

\* The id under which item k of the feed is stored.
FeedId(k) == normalise(feed[k], NoDetail).id

\* The feed holds distinct items, each with a slug and an allowed region.
FeedAllEligible ==
    /\ \A k \in 1..Len(feed) :
          /\ feed[k].slug # None
          /\ is_allowed(feed[k].region)
    /\ \A j, k \in 1..Len(feed) : FeedId(j) = FeedId(k) => j = k

Min(a, b) == IF a <= b THEN a ELSE b

\* Thread t has just ended a cycle over the feed: more eligible items than the
\* cap, every send so far successful.
C5_CycleOverFeed(t) ==
    /\ pc[t] = "returned"
    /\ listings[t] = feed
    /\ FeedAllEligible
    /\ Len(feed) > MAX_NOTIFS_PER_RUN
    /\ ~send_failed

\* What a cycle over N eligible items with cap C < N leaves, all sends having
\* succeeded: with `before` items notified by earlier cycles, it notified the
\* next min(C, N - before) items in source order, each with exactly one send
\* ever (none re-sent).  Of the items after them, none was sent; `stored` says
\* whether each has a row (with notified_at null) or none.
C5_Outcome(t, stored) ==
    LET done == idx[t] - 1
        before == done - notified_count[t]
    IN  /\ before >= 0
        /\ notified_count[t] = Min(MAX_NOTIFS_PER_RUN, Len(feed) - before)
        /\ \A k \in 1..Len(feed) :
              IF k <= done
              THEN Notified(FeedId(k)) /\ sent[FeedId(k)] = 1
              ELSE /\ sent[FeedId(k)] = 0
                   /\ rows[FeedId(k)].exists = stored
                   /\ stored => rows[FeedId(k)].notified_at = NoTime

\* C5 as stated: a cycle over N eligible new items with cap C < N notifies
\* exactly the first C in source order and leaves the remaining N - C rows
\* with notified_at null; the next cycle notifies the following ones (up to C)
\* and re-sends none.  (Stated for a cap of at least 1, so that the cycle that
\* refutes it is one that notifies something.)
C5_RemainingRowsPending ==
    \A t \in Threads :
       (C5_CycleOverFeed(t) /\ MAX_NOTIFS_PER_RUN >= 1)
          => C5_Outcome(t, TRUE)

\* C5 as amended: the same, except that the remaining N - C items have no row
\* yet: the cap stops the loop before they are upserted, so nothing is stored
\* for them until a later cycle reaches them.
C5_RemainingNotStored ==
    \A t \in Threads : C5_CycleOverFeed(t) => C5_Outcome(t, FALSE)

\* A second cycle has ended: it passed over the items the first notified and
\* notified the following ones.
C5_Witness ==
    \E t \in Threads :
       /\ C5_CycleOverFeed(t)
       /\ MAX_NOTIFS_PER_RUN >= 1
       /\ notified_count[t] >= 1
       /\ idx[t] - 1 - notified_count[t] = MAX_NOTIFS_PER_RUN

\* C6: notified_at only goes from null to a timestamp and never back: once
\* the row of an id holds a notification time, it holds one after every
\* upsert_listing and mark_notified that follows, and a row that holds one
\* does not need a notification.
C6_NotifiedStays ==
    [][ \A i \in Ids :
           Notified(i) =>
              /\ rows'[i].exists
              /\ rows'[i].notified_at # NoTime
              /\ ~needs_notification(rows', i) ]_vars

\* A notified row that an upsert touched after its notification.
C6_Witness ==
    \E i \in Ids :
       /\ Notified(i)
       /\ rows[i].last_seen_at > rows[i].notified_at

\* C7: notified_at is set exactly once per id, and only after a successful
\* send: a row that holds a notification time had a successful send, and
\* mark_notified is reached only after a successful send for an item with a
\* slug and an allowed region whose row does not hold a notification time yet.
C7_SetOnceAfterSend ==
    /\ \A i \in Ids : Notified(i) => sent[i] >= 1
    /\ \A t \in Threads :
          pc[t] = "mark" =>
             /\ sent[norm[t].id] >= 1
             /\ Item(t).slug # None
             /\ is_allowed(norm[t].region)
             /\ ~Notified(norm[t].id)

\* C8: a send that returns False leaves the row's notified_at null and the
\* notified counter as it was; a cycle that reaches the eligibility test of a
\* row seen before whose notified_at is null finds it eligible and goes on to
\* the region filter, and from there, the region being allowed, to the sender.
C8_FailedSendIsRetried ==
    [][ \A t \in Threads :
           /\ (pc[t] = "send" /\ pc'[t] = "loop") =>
                 /\ rows' = rows
                 /\ rows[norm[t].id].exists
                 /\ rows[norm[t].id].notified_at = NoTime
                 /\ notified_count'[t] = notified_count[t]
           /\ ( /\ pc[t] = "needs"
                /\ rows[norm[t].id].exists
                /\ rows[norm[t].id].notified_at = NoTime
                /\ pc'[t] # "needs" ) => pc'[t] = "filter"
           /\ ( /\ pc[t] = "filter"
                /\ is_allowed(norm[t].region)
                /\ pc'[t] # "filter" ) => pc'[t] = "send" ]_vars

\* After a failed send of the feed's only item, a later cycle found the row
\* eligible through needs_notification and is at the sender again.
C8_Witness ==
    \E t \in Threads :
       /\ feed = << Item_a1 >>
       /\ send_failed
       /\ pc[t] = "send"
       /\ new_count[t] = 0
       /\ rows["a1"].exists /\ rows["a1"].notified_at = NoTime

\* C9: a failure in a per-item step does not abort the cycle: the later items
\* of the batch are still processed and the cycle returns its counters.  So a
\* cycle that has ended with items behind the one it was at (stated for that
\* case, the one the claim is about) has returned, and was stopped by the cap.
C9_ItemFailureIsIsolated ==
    \A t \in Threads :
       (pc[t] \in {"returned", "raised"} /\ idx[t] < Len(listings[t])) =>
          /\ pc[t] = "returned"
          /\ CapReached(t)

\* C10: at most one forced cycle executes at any time, and a /force handled
\* while one is running starts nothing, changes nothing and is answered with
\* the already-running message.
ForcedRunning == { t \in ForceThreads : pc[t] # "idle" }

C10_ForceSerialized ==
    [][ /\ Cardinality(ForcedRunning') <= 1
        /\ ( /\ ForcedRunning # {}
             /\ reply' # reply
             /\ reply'.kind \in {"already", "cooldown", "starting"} ) =>
              /\ reply'.kind = "already"
              /\ UNCHANGED << now, env, pc, locals, rows, state,
                              force_running, force_last_ts, sent, send_failed >>
      ]_vars

\* A /force was answered already-running while a forced cycle was in progress.
C10_Witness ==
    /\ reply.kind = "already"
    /\ \E t \in ForceThreads : InCycle(t)

\* C11: a /force handled fewer than FORCE_COOLDOWN seconds after the previous
\* forced run finished (none being in progress) starts no cycle, changes
\* nothing but the reply, and is answered with the remaining cooldown; a
\* forced run that ends records its finish time, and a forced run starts only
\* when at least FORCE_COOLDOWN seconds have passed since that time.
C11_CooldownBetweenForcedRuns ==
    [][ /\ ( /\ ~force_running
             /\ now - force_last_ts < FORCE_COOLDOWN
             /\ reply' # reply ) =>
              /\ reply' = [kind |-> "cooldown",
                           wait |-> FORCE_COOLDOWN - (now - force_last_ts)]
              /\ reply'.wait \in 1..FORCE_COOLDOWN
              /\ UNCHANGED << now, env, pc, locals, rows, state,
                              force_running, force_last_ts, sent, send_failed >>
        /\ \A t \in ForceThreads :
              /\ (pc[t] # "idle" /\ pc'[t] = "idle") =>
                    /\ force_last_ts' = now
                    /\ ~force_running'
              /\ (pc[t] = "idle" /\ pc'[t] # "idle") =>
                    /\ now - force_last_ts >= FORCE_COOLDOWN
                    /\ reply'.kind = "starting"
      ]_vars

\* Half a cooldown after a forced run ended, a /force was answered with the
\* half that remains.
C11_Witness ==
    /\ reply = [kind |-> "cooldown", wait |-> FORCE_COOLDOWN \div 2]
    /\ force_last_ts >= StartTime
    /\ ~force_running

\* The items of thread t's batch that have a slug carry distinct ids.
DistinctIds(t) ==
    \A j, k \in 1..Len(listings[t]) :
       ( /\ listings[t][j].slug # None
         /\ listings[t][k].slug # None
         /\ normalise(listings[t][j], NoDetail).id
               = normalise(listings[t][k], NoDetail).id ) => j = k

\* The rows that exist, hold no notification time and had no successful send.
PendingUnsent ==
    { i \in Ids : rows[i].exists /\ rows[i].notified_at = NoTime /\ sent[i] = 0 }

\* C12: an eligible item whose region the filter blocks has a row (the upsert
\* came first) with notified_at null and no send; the filter step leaves the
\* store and the sender untouched, adds exactly 1 to skipped and nothing to new
\* or notified (the cap counter), and goes on to the next item.  When the
\* cycle over a batch of distinct ids ends, each item it counted as skipped
\* still is a row with notified_at null that was never sent.
C12_BlockedIsStoredNotSent ==
    [][ \A t \in Threads :
           /\ (pc[t] = "filter" /\ ~is_allowed(norm[t].region)) =>
                 /\ rows[norm[t].id].exists
                 /\ rows[norm[t].id].notified_at = NoTime
                 /\ sent[norm[t].id] = 0
                 /\ rows' = rows
                 /\ sent' = sent
                 /\ send_failed' = send_failed
                 /\ pc'[t] \in {"filter", "loop"}
                 /\ pc'[t] = "loop" =>
                       /\ skipped_count'[t] = skipped_count[t] + 1
                       /\ notified_count'[t] = notified_count[t]
                       /\ new_count'[t] = new_count[t]
                       /\ idx'[t] = idx[t] + 1
           /\ (pc'[t] = "returned" /\ DistinctIds(t)') =>
                 skipped_count'[t] <= Cardinality(PendingUnsent')
      ]_vars

\* A cycle ended in which a new item with region "US" was stored and skipped.
C12_Witness ==
    \E t \in Threads :
       /\ pc[t] = "returned"
       /\ new_count[t] = 1
       /\ skipped_count[t] = 1
       /\ notified_count[t] = 0
       /\ rows["a2"].exists
       /\ rows["a2"].region = Str_US
       /\ rows["a2"].notified_at = NoTime
       /\ sent["a2"] = 0

\* C13: the step of a cycle that is at an item without a slug goes on to the
\* next item and changes nothing else: no counter, no normalised item (no
\* detail was fetched), no row, no send, no Run State field.
C13_NoSlugChangesNothing ==
    [][ \A t \in Threads :
           ( /\ pc[t] = "loop"
             /\ HasNext(t)
             /\ Item(t).slug = None
             /\ << pc[t], idx[t] >>' # << pc[t], idx[t] >> ) =>
              /\ pc'[t] = "loop"
              /\ idx'[t] = idx[t] + 1
              /\ norm'[t] = NoItem
              /\ Counters(t)' = Counters(t)
              /\ UNCHANGED << rows, sent, send_failed, state, listings >>
      ]_vars

\* The cycle passed over an item without a slug and has sent the item after it.
C13_Witness ==
    \E t \in Threads :
       /\ Len(listings[t]) = 2
       /\ listings[t][1].slug = None
       /\ idx[t] = 2
       /\ pc[t] = "mark"
       /\ Counters(t) = << 1, 0, 0 >>

\* C14: a cycle that completes without raising leaves last_success_at at its
\* completion time and last_error at None, whatever an earlier cycle recorded.
\* Stated for the cycle the claim singles out: the source answers an empty
\* batch, so the cycle returns from the fetch.
C14_SuccessClearsError ==
    [][ \A t \in Threads :
           ( /\ feed = <<>>
             /\ pc[t] = "start"
             /\ pc'[t] = "returned" ) =>
              /\ state'.last_success_at = now
              /\ state'.last_error = None
      ]_vars

\* C15: a failure of the listing fetch (the source holds a batch, the cycle
\* gets none) aborts the cycle by raising, so that the error reaches
\* last_error; no success time is recorded for the cycle and its counters are
\* zero.
C15_FetchFailureAborts ==
    [][ \A t \in Threads :
           ( /\ pc[t] = "start"
             /\ pc'[t] # "start"
             /\ feed # <<>>
             /\ listings'[t] = <<>> ) =>
              /\ pc'[t] = "raised"
              /\ state'.last_success_at = state.last_success_at
              /\ Counters(t)' = << 0, 0, 0 >>
      ]_vars

\* C16: when run_cycle raises, the watcher loop catches the exception, stores
\* it in last_error and goes back to sleep; and the loop starts a cycle again
\* and again.
C16_LoopNeverStops ==
    /\ [][ (pc[MainThread] = "raised" /\ pc'[MainThread] # "raised") =>
              /\ pc'[MainThread] = "idle"
              /\ state'.last_error # None ]_vars
    /\ []<>(pc[MainThread] = "start")

\* A cycle starts after cycles that raised: mark_notified failed after each of
\* the MaxSent successful sends of one id.
C16_Witness ==
    /\ pc[MainThread] = "start"
    /\ state.last_error # None
    /\ Cardinality({ i \in Ids : rows[i].exists }) = 1
    /\ \E i \in Ids : sent[i] = MaxSent

\* The records upsert_listing can be called with.
Records ==
    { normalise(it, detail) :
         it \in {x \in Items : x.slug # None}, detail \in {NoDetail} \cup
            { DetailOf(y) : y \in Items } }

\* C17: from every table the store can hold, two upserts of one record (the
\* second at the same or a later time): the first reports isNew exactly when
\* the id had no row, the second reports isNew = false, leaves first_seen_at
\* and notified_at as the first left them, sets last_seen_at to its own time
\* (not before the first's), and the table still holds one row for the id and
\* the other rows as they were.
C17_UpsertTwice ==
    \A rec \in Records : \A later \in {now, now + TickSeconds} :
       LET first == upsert_listing(rows, rec, now)
           second == upsert_listing(first, rec, later)
       IN  /\ upsert_is_new(rows, rec) = ~rows[rec.id].exists
           /\ ~upsert_is_new(first, rec)
           /\ first[rec.id].exists
           /\ ~rows[rec.id].exists =>
                 /\ first[rec.id].first_seen_at = now
                 /\ first[rec.id].notified_at = NoTime
           /\ rows[rec.id].exists =>
                 /\ first[rec.id].first_seen_at = rows[rec.id].first_seen_at
                 /\ first[rec.id].notified_at = rows[rec.id].notified_at
           /\ second[rec.id].exists
           /\ second[rec.id].first_seen_at = first[rec.id].first_seen_at
           /\ second[rec.id].notified_at = first[rec.id].notified_at
           /\ second[rec.id].last_seen_at = later
           /\ second[rec.id].last_seen_at >= first[rec.id].last_seen_at
           /\ DOMAIN second = Ids
           /\ \A i \in Ids \ {rec.id} : second[i] = rows[i]

\* A row upserted a second time after the clock advanced, and notified in
\* between: last_seen_at moved on, first_seen_at did not.
C17_Witness ==
    \E i \in Ids :
       /\ rows[i].exists
       /\ rows[i].first_seen_at = StartTime
       /\ rows[i].notified_at = StartTime
       /\ rows[i].last_seen_at > rows[i].first_seen_at

\* The feed holds k >= 1 distinct items within the cap, each with a slug and a
\* detail region that is a global keyword.
FeedAllGlobal ==
    /\ Len(feed) >= 1
    /\ Len(feed) <= MAX_NOTIFS_PER_RUN
    /\ \A k \in 1..Len(feed) :
          /\ feed[k].slug # None
          /\ Lower(Strip(feed[k].region)) \in GLOBAL_KEYWORDS
    /\ \A j, k \in 1..Len(feed) : FeedId(j) = FeedId(k) => j = k

\* C18: the first cycle over k distinct never-seen items (k within the cap),
\* each with a slug, its detail received with a global-keyword region, and
\* every send successful, ends with k rows inserted, each sent exactly once
\* and holding a notification time, no other row, and the counters
\* {new: k, notified: k, skipped: 0}.
C18_EndToEnd ==
    [][ \A t \in Threads :
           ( /\ pc[t] = "loop"
             /\ pc'[t] = "returned"
             /\ state.last_success_at = NoTime
             /\ listings[t] = feed
             /\ FeedAllGlobal
             /\ \A k \in 1..Len(feed) :
                   rows[FeedId(k)].exists =>
                      rows[FeedId(k)].region = feed[k].region
             /\ ~send_failed ) =>
              /\ Counters(t)' = << Len(feed), Len(feed), 0 >>
              /\ \A k \in 1..Len(feed) :
                    /\ Notified(FeedId(k))'
                    /\ sent'[FeedId(k)] = 1
                    /\ rows'[FeedId(k)].is_global
              /\ Cardinality({ i \in Ids : rows'[i].exists }) = Len(feed)
      ]_vars

\* The first cycle over the batch [s3, a1] with cap 2 returned {2, 2, 0}.
C18_Witness ==
    /\ feed = << Item_s3, Item_a1 >>
    /\ pc[MainThread] = "returned"
    /\ Counters(MainThread) = << 2, 2, 0 >>
    /\ rows["s3"].region = Str_remote_padded
    /\ rows["a1"].first_seen_at = state.last_success_at

\* C19: is_allowed is true for an absent region, the empty string, "Global",
\* "WORLDWIDE", " remote " and "online", and false for "US", "Nigeria",
\* "brazil" and a blank string; the is_global flag normalise computes, and the
\* one the store holds, equals is_allowed of the normalised region; and only
\* items of an allowed region reach the sender.
C19_RegionFilter ==
    /\ \A r \in { NoneStr, Str_empty, Str_Global, Str_WORLDWIDE,
                  Str_remote_padded, Str_online } : is_allowed(r)
    /\ \A r \in { Str_US, Str_Nigeria, Str_brazil, Str_blank } : ~is_allowed(r)
    /\ \A r \in Regions :
          LET n == normalise(RegionItem(r), DetailOf(RegionItem(r)))
          IN  /\ n.is_global = is_allowed(n.region)
              /\ n.is_global = is_allowed(r)
    /\ \A t \in Threads :
          /\ pc[t] \in ItemPcs => norm[t].is_global = is_allowed(norm[t].region)
          /\ pc[t] \in {"send", "mark"} =>
                norm[t].region \in { NoneStr, Str_Global, Str_WORLDWIDE,
                                     Str_remote_padded, Str_online }
    /\ \A i \in Ids :
          rows[i].exists => rows[i].is_global = is_allowed(rows[i].region)

\* The item with region "WORLDWIDE" was stored with is_global true, passed the
\* filter and was sent.
C19_Witness ==
    /\ pc[MainThread] = "mark"
    /\ norm[MainThread].region = Str_WORLDWIDE
    /\ rows["a1"].region = Str_WORLDWIDE
    /\ rows["a1"].is_global

\* C20: the source answering the same batch on every cycle, the cap being at
\* least 1, no store operation failing and every item's send succeeding at
\* some time, each item of the batch that has a slug and an allowed region
\* eventually has notified_at set, whatever its position in the batch.
C20_NothingIsLost ==
    \A k \in 1..MaxBatch :
       ( /\ MAX_NOTIFS_PER_RUN >= 1
         /\ k <= Len(feed)
         /\ feed[k].slug # None
         /\ is_allowed(feed[k].region) )
       ~> ( /\ k <= Len(feed)
            /\ feed[k].slug # None
            /\ Notified(FeedId(k)) )

\* The last item of a batch longer than the cap is notified, after a cycle
\* that deferred it and a send that failed.
C20_Witness ==
    /\ Len(feed) = MaxBatch
    /\ MAX_NOTIFS_PER_RUN = 1
    /\ FeedAllEligible
    /\ send_failed
    /\ Notified(FeedId(MaxBatch))
    /\ rows[FeedId(MaxBatch)].notified_at >= StartTime

\* C21: a forced run that started eventually releases the guard; the step
\* that ends it, run_cycle having returned or raised, sets _force_running to
\* false and _force_last_ts to the time of that step; and a /force handled
\* with the guard released and the cooldown over is accepted.
C21_GuardReleases ==
    /\ force_running ~> ~force_running
    /\ [][ \A t \in ForceThreads :
              (pc[t] \in {"returned", "raised"} /\ pc'[t] # pc[t]) =>
                 /\ pc'[t] = "idle"
                 /\ ~force_running'
                 /\ force_last_ts' = now ]_vars
    /\ [][ ( /\ ~force_running
             /\ now - force_last_ts >= FORCE_COOLDOWN
             /\ reply' # reply ) =>
              /\ reply'.kind = "starting"
              /\ force_running'
              /\ \E t \in ForceThreads : pc'[t] = "start" ]_vars

\* A /force was accepted a cooldown after a forced run that raised (its send
\* succeeded and its mark_notified failed).
C21_Witness ==
    /\ reply.kind = "starting"
    /\ force_running
    /\ force_last_ts >= StartTime
    /\ now - force_last_ts >= FORCE_COOLDOWN
    /\ \E i \in Ids : sent[i] = 1 /\ ~Notified(i)

\* Thread t is processing an item seen before whose row holds no notification
\* time and whose region, as normalised in this cycle, the filter blocks.
BlockedPending(t) ==
    /\ pc[t] \in {"upsert", "needs", "filter"}
    /\ rows[norm[t].id].exists
    /\ rows[norm[t].id].notified_at = NoTime
    /\ ~is_allowed(norm[t].region)

\* C22: a cycle that meets a blocked item seen before, still not notified,
\* does not count it as new, finds it eligible through needs_notification,
\* and the filter counts it as skipped once more; its notified_at stays null
\* and it is not sent, so the next cycle finds it in the same condition.
C22_BlockedIsRecounted ==
    [][ \A t \in Threads :
           (BlockedPending(t) /\ pc'[t] # pc[t]) =>
              /\ rows'[norm[t].id].exists
              /\ rows'[norm[t].id].notified_at = NoTime
              /\ sent' = sent
              /\ new_count'[t] = new_count[t]
              /\ notified_count'[t] = notified_count[t]
              /\ pc[t] = "upsert" =>
                    /\ pc'[t] = "needs"
                    /\ skipped_count'[t] = skipped_count[t]
              /\ pc[t] = "needs" =>
                    /\ pc'[t] = "filter"
                    /\ skipped_count'[t] = skipped_count[t]
              /\ pc[t] = "filter" =>
                    /\ pc'[t] = "loop"
                    /\ skipped_count'[t] = skipped_count[t] + 1
      ]_vars

\* A later cycle over the item with region "US" ended with
\* {new: 0, notified: 0, skipped: 1}, the row still not notified.
C22_Witness ==
    \E t \in Threads :
       /\ pc[t] = "returned"
       /\ listings[t] = << Item_a2 >>
       /\ Counters(t) = << 0, 0, 1 >>
       /\ rows["a2"].region = Str_US
       /\ rows["a2"].notified_at = NoTime

====
